---- MODULE Spec2Model ----
(***************************************************************************)
(* Model of kazoo/client.py: the KazooClient connection state machine, the *)
(* callback wrappers handed to the zookeeper transport, and the operation  *)
(* facade built on _safe_call.                                             *)
(*                                                                         *)
(* Threads: the application thread (public calls, each run to completion), *)
(* the transport thread (invokes the wrappers built by                     *)
(* _wrap_session_callback / _wrap_watch_callback and the completion        *)
(* callbacks), and the handler thread (runs dispatched Callback records in *)
(* FIFO order).                                                            *)
(***************************************************************************)
EXTENDS Integers, Sequences, FiniteSets

VARIABLES
    _handle,                \* self._handle (None or a transport handle)
    _live,                  \* self._live.is_set()
    _stopped,               \* self._stopped.is_set()
    state,                  \* self.state
    state_listeners,        \* self.state_listeners
    _connection_timed_out,  \* self._connection_timed_out
    _watcher,               \* self._watcher is set (a default watcher was given)
    pc,                     \* application thread: "idle" or blocked in connect()
    hpc,                    \* handler thread: "idle" or inside _session_callback
    zhandles,               \* transport: handles opened by init and not closed
    next_zhandle,           \* transport: next handle init() returns
    watches,                \* transport: watch wrappers registered and armed
    pending,                \* transport: accepted requests awaiting completion
    queue,                  \* handler: dispatched Callback records, FIFO
    results,                \* AsyncResult objects allocated by the facade
    zh,                     \* per thread: the local zh of _safe_close
    race,                   \* stop() against a callback (observation only)
    heard,                  \* per listener: last states it was invoked with
    last                    \* what the last step did (observation only)

vars == <<_handle, _live, _stopped, state, state_listeners,
          _connection_timed_out, _watcher, pc, hpc, zhandles, next_zhandle,
          watches, pending, queue, results, zh, race, heard, last>>

----------------------------------------------------------------------------
(* Bounds of the model *)

MaxHandles == 2      \* transport sessions opened in one behaviour
MaxQueue == 1        \* Callback records waiting in the handler
MaxResults == 1      \* AsyncResults allocated in one behaviour

----------------------------------------------------------------------------
(* Constants of the program *)

None == 0

\* KazooState
SUSPENDED == "SUSPENDED"
CONNECTED == "CONNECTED"
LOST == "LOST"
KazooState == {SUSPENDED, CONNECTED, LOST}

\* KeeperState (values of the zookeeper C binding)
ASSOCIATING_STATE == 2
AUTH_FAILED_STATE == -113
CONNECTED_STATE == 3
CONNECTING_STATE == 1
EXPIRED_SESSION_STATE == -112
KeeperState == {ASSOCIATING_STATE, AUTH_FAILED_STATE, CONNECTED_STATE,
                CONNECTING_STATE, EXPIRED_SESSION_STATE}

\* EventType (values of the zookeeper C binding)
NOTWATCHING_EVENT == -2
SESSION_EVENT == -1
CREATED_EVENT == 1
DELETED_EVENT == 2
CHANGED_EVENT == 3
CHILD_EVENT == 4
EventType == {NOTWATCHING_EVENT, SESSION_EVENT, CREATED_EVENT, DELETED_EVENT,
              CHANGED_EVENT, CHILD_EVENT}

\* status codes of completion callbacks
OK == 0
NONODE == -101
BADVERSION == -103

Listeners == {"l1", "l2"}

\* The listeners whose invocation raises an exception.
Raising == {"l2"}
Paths == {"/a"}

\* Raw (type, state) pairs the transport hands to the session watcher: a
\* session event in each state the client tells apart, and a node event.
SessionRaw == {<<SESSION_EVENT, CONNECTED_STATE>>,
               <<SESSION_EVENT, CONNECTING_STATE>>,
               <<SESSION_EVENT, ASSOCIATING_STATE>>,
               <<SESSION_EVENT, EXPIRED_SESSION_STATE>>,
               <<SESSION_EVENT, AUTH_FAILED_STATE>>,
               <<CHANGED_EVENT, CONNECTED_STATE>>}

\* Raw (type, state) pairs handed to a watch wrapper.  The wrapper takes any
\* integers; the pair whose state is the session-event marker exercises its
\* filter.
WatchRaw == {<<CHANGED_EVENT, CONNECTED_STATE>>,
             <<SESSION_EVENT, CONNECTED_STATE>>,
             <<SESSION_EVENT, EXPIRED_SESSION_STATE>>,
             <<CHANGED_EVENT, SESSION_EVENT>>}

----------------------------------------------------------------------------
(* WatchedEvent and Callback namedtuples *)

WatchedEvent(type, st, path) == [type |-> type, state |-> st, path |-> path]

Callback(type, func, args) == [type |-> type, func |-> func, args |-> args]

\* The Callback records the wrapper built by _wrap_session_callback hands
\* to the handler for one raw event: always one.
_wrap_session_callback(handle, type, st, path) ==
    <<Callback("session", "_session_callback", <<handle, type, st, path>>)>>

_wrap_watch_callback_nofilter(handle, type, st, path) ==
    <<Callback("watch", "watch", <<WatchedEvent(type, st, path)>>)>>

\* The Callback records the wrapper built by _wrap_watch_callback hands to
\* the handler for one raw event.
_wrap_watch_callback(handle, type, st, path) ==
    IF st # SESSION_EVENT
    THEN <<Callback("watch", "watch", <<WatchedEvent(type, st, path)>>)>>
    ELSE <<>>

----------------------------------------------------------------------------
(* The environment record threaded through the methods of one step: the    *)
(* client fields a method may write, the transport's handle table, and the *)
(* calls made so far in this step.                                         *)

NoNotes == [l \in Listeners |-> <<>>]

Env == [handle |-> _handle, live |-> _live, stopped |-> _stopped,
        state |-> state, zhandles |-> zhandles, next |-> next_zhandle,
        inits |-> 0, closes |-> <<>>, notes |-> NoNotes, ret |-> "None",
        logged |-> 0, watcher |-> <<>>, log |-> <<>>, exc |-> ""]

\* zookeeper.close(h) as the client uses it: the handle leaves the table;
\* an exception for an already closed handle is swallowed by both callers.
zookeeper_close(e, h) ==
    [e EXCEPT !.zhandles = @ \ {h}, !.closes = Append(@, h),
              !.log = Append(@, <<"close", h>>)]

\* zookeeper.init(hosts, cb, timeout): a fresh handle with cb registered.
zookeeper_init(e) ==
    [e EXCEPT !.handle = e.next, !.zhandles = @ \cup {e.next},
              !.next = @ + 1, !.inits = @ + 1,
              !.log = Append(@, <<"init", e.next>>)]

\* The listener loop of _make_state_change, lines 477-481: every listener
\* is invoked; an exception of one is logged and the loop goes on.
Notify(e, s) ==
    [e EXCEPT !.notes = [l \in Listeners |->
                           IF l \in state_listeners
                           THEN Append(e.notes[l], s)
                           ELSE e.notes[l]],
              !.logged = @ + Cardinality(state_listeners \cap Raising),
              !.log = Append(@, <<"state", s>>)]

_make_state_change_always(e, s) == Notify([e EXCEPT !.state = s], s)

\* without the try/except: a raising listener that the loop reaches first
\* ends the loop and the exception leaves _make_state_change
_make_state_change_propagate(e, s) ==
    IF e.state = s
    THEN e
    ELSE IF state_listeners \cap Raising = {}
    THEN Notify([e EXCEPT !.state = s], s)
    ELSE [e EXCEPT !.state = s,
                   !.notes = [l \in Listeners |->
                                IF l \in state_listeners \cap Raising
                                THEN Append(e.notes[l], s)
                                ELSE e.notes[l]],
                   !.exc = "Exception",
                   !.log = Append(@, <<"state", s>>)]

_make_state_change(e, s) ==
    IF e.state = s
    THEN e
    ELSE Notify([e EXCEPT !.state = s], s)

\* without line 524: the handle is closed and the state is left as it was
_safe_close_nolost(e) ==
    IF e.handle # None
    THEN LET e1 == zookeeper_close([e EXCEPT !.handle = None], e.handle)
         IN  [e1 EXCEPT !.live = FALSE]
    ELSE e

\* without line 523: the live flag survives the close
_safe_close_keeps_live(e) ==
    IF e.handle # None
    THEN LET e1 == zookeeper_close([e EXCEPT !.handle = None], e.handle)
         IN  _make_state_change(e1, LOST)
    ELSE e

_safe_close(e) ==
    IF e.handle # None
    THEN LET e1 == zookeeper_close([e EXCEPT !.handle = None], e.handle)
             e2 == [e1 EXCEPT !.live = FALSE]
         IN  _make_state_change(e2, LOST)
    ELSE e

connect_async_nocheck(e) ==
    LET e1 == _safe_close(e)
        e2 == [e1 EXCEPT !.stopped = FALSE]
        e3 == zookeeper_init(e2)
    IN  [e3 EXCEPT !.ret = "event"]

connect_async(e) ==
    IF e.live
    THEN [e EXCEPT !.ret = "None"]
    ELSE LET e1 == _safe_close(e)
             e2 == [e1 EXCEPT !.stopped = FALSE]
             e3 == zookeeper_init(e2)
         IN  [e3 EXCEPT !.ret = "event"]

restart_noclose(e) == connect_async([e EXCEPT !.stopped = FALSE])

\* restart() up to the wait inside connect(): lines 576-577, then the
\* connect_async of line 557
restart(e) == connect_async([_safe_close(e) EXCEPT !.stopped = FALSE])

stop_noclose(e) == [e EXCEPT !.stopped = TRUE]

stop(e) == _safe_close([e EXCEPT !.stopped = TRUE])

\* lines 503-505 of _session_callback: the session is gone
_session_expired(e) ==
    _make_state_change([e EXCEPT !.live = FALSE, !.handle = None], LOST)

\* lines 512-513 of _session_callback: the default watcher, if one is set
_call_watcher(e, type, st, path) ==
    IF _watcher
    THEN [e EXCEPT !.watcher = Append(@, WatchedEvent(type, st, path)),
                   !.log = Append(@, <<"watcher", type, st>>)]
    ELSE e

_session_callback_nostale(e, handle, type, st, path) ==
    IF type # SESSION_EVENT
    THEN e
    ELSE IF e.stopped
    THEN e
    ELSE IF st = CONNECTED_STATE
    THEN _call_watcher(
             _make_state_change([e EXCEPT !.live = TRUE], CONNECTED),
             type, st, path)
    ELSE IF st \in {EXPIRED_SESSION_STATE, AUTH_FAILED_STATE}
    THEN _call_watcher(connect_async(_session_expired(e)), type, st, path)
    ELSE _call_watcher(
             _make_state_change([e EXCEPT !.live = FALSE], SUSPENDED),
             type, st, path)

_session_callback_noreconnect(e, handle, type, st, path) ==
    IF type # SESSION_EVENT
    THEN e
    ELSE IF e.handle # handle
    THEN zookeeper_close(e, handle)
    ELSE IF e.stopped
    THEN e
    ELSE IF st = CONNECTED_STATE
    THEN _call_watcher(
             _make_state_change([e EXCEPT !.live = TRUE], CONNECTED),
             type, st, path)
    ELSE IF st \in {EXPIRED_SESSION_STATE, AUTH_FAILED_STATE}
    THEN _call_watcher(_session_expired(e), type, st, path)
    ELSE _call_watcher(
             _make_state_change([e EXCEPT !.live = FALSE], SUSPENDED),
             type, st, path)

_session_callback_keeps_live(e, handle, type, st, path) ==
    IF type # SESSION_EVENT
    THEN e
    ELSE IF e.handle # handle
    THEN zookeeper_close(e, handle)
    ELSE IF e.stopped
    THEN e
    ELSE IF st = CONNECTED_STATE
    THEN _call_watcher(
             _make_state_change([e EXCEPT !.live = TRUE], CONNECTED),
             type, st, path)
    ELSE IF st \in {EXPIRED_SESSION_STATE, AUTH_FAILED_STATE}
    THEN _call_watcher(connect_async(_session_expired(e)), type, st, path)
    ELSE _call_watcher(_make_state_change(e, SUSPENDED), type, st, path)

\* without line 499: a CONNECTED event changes the state only
_session_callback_nolive(e, handle, type, st, path) ==
    IF type # SESSION_EVENT
    THEN e
    ELSE IF e.handle # handle
    THEN zookeeper_close(e, handle)
    ELSE IF e.stopped
    THEN e
    ELSE IF st = CONNECTED_STATE
    THEN _call_watcher(_make_state_change(e, CONNECTED), type, st, path)
    ELSE IF st \in {EXPIRED_SESSION_STATE, AUTH_FAILED_STATE}
    THEN _call_watcher(connect_async(_session_expired(e)), type, st, path)
    ELSE _call_watcher(
             _make_state_change([e EXCEPT !.live = FALSE], SUSPENDED),
             type, st, path)

_session_callback(e, handle, type, st, path) ==
    IF type # SESSION_EVENT
    THEN e
    ELSE IF e.handle # handle
    THEN zookeeper_close(e, handle)
    ELSE IF e.stopped
    THEN e
    ELSE IF st = CONNECTED_STATE
    THEN _call_watcher(
             _make_state_change([e EXCEPT !.live = TRUE], CONNECTED),
             type, st, path)
    ELSE IF st \in {EXPIRED_SESSION_STATE, AUTH_FAILED_STATE}
    THEN _call_watcher(connect_async(_session_expired(e)), type, st, path)
    ELSE _call_watcher(
             _make_state_change([e EXCEPT !.live = FALSE], SUSPENDED),
             type, st, path)

----------------------------------------------------------------------------
(* Committing a step *)

\* The last two states a listener was invoked with; a pair of equal
\* consecutive states, once heard, is kept.
Last2(s) == IF Len(s) <= 2 THEN s ELSE SubSeq(s, Len(s) - 1, Len(s))

RECURSIVE Hear(_, _)
Hear(h, n) ==
    IF n = <<>> THEN h
    ELSE IF Len(h) = 2 /\ h[1] = h[2] THEN h
    ELSE Hear(Last2(Append(h, Head(n))), Tail(n))

Observe(op, e, cb) ==
    [op |-> op, cb |-> cb, inits |-> e.inits, closes |-> e.closes,
     notes |-> e.notes, ret |-> e.ret, res |-> 0, calls |-> 0,
     raised |-> e.exc, dispatched |-> 0, watched |-> 0,
     logged |-> e.logged, watcher |-> e.watcher, log |-> e.log]

NoCb == <<>>

Commit(e) ==
    /\ _handle' = e.handle
    /\ _live' = e.live
    /\ _stopped' = e.stopped
    /\ state' = e.state
    /\ zhandles' = e.zhandles
    /\ next_zhandle' = e.next
    /\ heard' = [l \in Listeners |-> Hear(heard[l], e.notes[l])]

----------------------------------------------------------------------------
(* Initial state: KazooClient.__init__ *)

\* the threads that run client code: the application's and the handler's
Threads == {"app", "handler"}

Init ==
    /\ _handle = None
    /\ _live = FALSE
    /\ _stopped = TRUE
    /\ _connection_timed_out = FALSE
    /\ _watcher \in BOOLEAN
    /\ state = LOST
    /\ state_listeners = {}
    /\ pc = "idle"
    /\ hpc = "idle"
    /\ zhandles = {}
    /\ next_zhandle = 1
    /\ watches = 0
    /\ pending = {}
    /\ queue = <<>>
    /\ results = <<>>
    /\ zh = [t \in Threads |-> None]
    /\ race = [began |-> 0, overlap |-> FALSE]
    /\ heard = NoNotes
    /\ last = Observe("__init__", Env, NoCb)

----------------------------------------------------------------------------
(* Application thread: listener registry and connection control *)

add_listener ==
    /\ pc = "idle"
    /\ \E l \in Listeners :
         /\ l \notin state_listeners
         /\ state_listeners' = state_listeners \cup {l}
    /\ last' = Observe("add_listener", Env, NoCb)
    /\ UNCHANGED <<_watcher, zh, race,
                   _handle, _live, _stopped, state, _connection_timed_out, pc, hpc,
                   zhandles, next_zhandle, watches, pending, queue, results,
                   heard>>

remove_listener ==
    /\ pc = "idle"
    /\ \E l \in Listeners :
         /\ l \in state_listeners
         /\ state_listeners' = state_listeners \ {l}
         /\ heard' = [heard EXCEPT ![l] = <<>>]
    /\ last' = Observe("remove_listener", Env, NoCb)
    /\ UNCHANGED <<_watcher, zh, race,
                   _handle, _live, _stopped, state, _connection_timed_out, pc, hpc,
                   zhandles, next_zhandle, watches, pending, queue, results>>

ConnectAsync ==
    /\ pc = "idle"
    /\ next_zhandle <= MaxHandles
    /\ LET e == connect_async(Env)
       IN  Commit(e) /\ last' = Observe("connect_async", e, NoCb)
    /\ UNCHANGED <<_watcher, zh, race,
                   state_listeners, _connection_timed_out, pc, hpc, watches,
                   pending, queue, results>>

Stop ==
    /\ pc = "idle"
    /\ LET e == stop(Env)
       IN  Commit(e) /\ last' = Observe("stop", e, NoCb)
    /\ UNCHANGED <<_watcher, zh, race,
                   state_listeners, _connection_timed_out, pc, hpc, watches,
                   pending, queue, results>>

----------------------------------------------------------------------------
(* Transport thread and handler thread: session callbacks *)

\* wrapper built by _wrap_session_callback: always dispatches
SessionWrapper ==
    /\ Len(queue) < MaxQueue
    /\ \E handle \in 1..(next_zhandle - 1), ev \in SessionRaw, path \in Paths :
         /\ queue' = queue \o _wrap_session_callback(handle, ev[1], ev[2],
                                                     path)
         /\ last' = [Observe("session_wrapper", Env, NoCb)
                       EXCEPT !.dispatched = 1]
    /\ UNCHANGED <<_watcher, zh, race,
                   _handle, _live, _stopped, state, state_listeners,
                   _connection_timed_out, pc, hpc, zhandles, next_zhandle, watches,
                   pending, results, heard>>

\* the wait of line 563 after a step: the live flag is clear whenever the
\* wait begins, so a step that leaves it set has called self._live.set()
\* (line 499), which wakes the waiter even if the flag is cleared again
\* before the waiter runs
Waiting(e) ==
    IF pc \in {"wait", "wait_timeout"} /\ e.live THEN "woken" ELSE pc

\* the handler runs the Callback at the head of its queue
RunSessionCallback ==
    /\ hpc = "idle"
    /\ queue # <<>>
    /\ Head(queue).type = "session"
    /\ LET a == Head(queue).args
           e == _session_callback(Env, a[1], a[2], a[3], a[4])
       IN  /\ e.inits > 0 => next_zhandle <= MaxHandles
           /\ Commit(e)
           /\ pc' = Waiting(e)
           /\ last' = Observe("_session_callback", e, a)
    /\ queue' = Tail(queue)
    /\ UNCHANGED <<_watcher, zh, race,
                   state_listeners, _connection_timed_out, hpc, watches,
                   pending, results>>

\* The same callback with the application thread running beside the handler
\* thread: the expiry branch is split at its call of connect_async, the
\* window in which _safe_call finds the handle cleared while the client is
\* supposed to be running.
ReachesExpiry(a) ==
    /\ a[2] = SESSION_EVENT
    /\ a[1] = _handle
    /\ ~_stopped
    /\ a[3] \in {EXPIRED_SESSION_STATE, AUTH_FAILED_STATE}

SessionCallbackBegin ==
    /\ hpc = "idle"
    /\ queue # <<>>
    /\ Head(queue).type = "session"
    /\ LET a == Head(queue).args
           e == IF ReachesExpiry(a) THEN _session_expired(Env)
                ELSE _session_callback(Env, a[1], a[2], a[3], a[4])
       IN  /\ Commit(e)
           /\ hpc' = IF ReachesExpiry(a) THEN "reconnect" ELSE "idle"
           /\ last' = Observe(IF ReachesExpiry(a) THEN "_session_callback:505"
                              ELSE "_session_callback", e, a)
           /\ queue' = IF ReachesExpiry(a) THEN queue ELSE Tail(queue)
    /\ UNCHANGED <<_watcher, zh, race,
                   state_listeners, _connection_timed_out, pc, watches,
                   pending, results>>

SessionCallbackReconnect ==
    /\ hpc = "reconnect"
    /\ next_zhandle <= MaxHandles
    /\ LET a == Head(queue).args
           e == _call_watcher(connect_async(Env), a[2], a[3], a[4])
       IN  Commit(e) /\ last' = Observe("_session_callback:506", e, a)
    /\ hpc' = "idle"
    /\ queue' = Tail(queue)
    /\ UNCHANGED <<_watcher, zh, race,
                   state_listeners, _connection_timed_out, pc,
                   watches, pending, results>>

\* connect(timeout): connect_async, then wait on the returned event
Connect ==
    /\ pc = "idle"
    /\ next_zhandle <= MaxHandles
    /\ \E timed \in BOOLEAN :
         LET e == connect_async(Env)
         IN  /\ Commit(e)
             /\ last' = Observe("connect", e, NoCb)
             /\ pc' = IF e.ret = "None" THEN "idle"
                      ELSE IF timed THEN "wait_timeout" ELSE "wait"
    /\ UNCHANGED <<_watcher, zh, race,
                   state_listeners, _connection_timed_out, hpc, watches,
                   pending, queue, results>>

\* restart(): _safe_close, clear the stop, connect() without a timeout
Restart ==
    /\ pc = "idle"
    /\ next_zhandle <= MaxHandles
    /\ LET e == restart(Env)
       IN  /\ Commit(e)
           /\ last' = Observe("restart", e, NoCb)
           /\ pc' = IF e.ret = "None" THEN "idle" ELSE "wait"
    /\ UNCHANGED <<_watcher, zh, race,
                   state_listeners, _connection_timed_out, hpc, watches,
                   pending, queue, results>>

\* event.wait() returns: the live flag was set while connect() waited
ConnectReturn ==
    /\ pc = "woken"
    /\ pc' = "idle"
    /\ last' = Observe("connect_return", Env, NoCb)
    /\ UNCHANGED <<_watcher, zh, race,
                   _handle, _live, _stopped, state, state_listeners,
                   _connection_timed_out, hpc, zhandles, next_zhandle,
                   watches, pending, queue, results, heard>>

\* a timeout that gives the connection up instead of only marking it
ConnectTimeoutCloses ==
    /\ pc = "wait_timeout"
    /\ ~_live
    /\ _connection_timed_out' = TRUE
    /\ pc' = "idle"
    /\ LET e == [_safe_close(Env) EXCEPT !.exc = "timeout_error"]
       IN  Commit(e) /\ last' = Observe("connect_timeout", e, NoCb)
    /\ UNCHANGED <<_watcher, zh, race,
                   state_listeners, hpc, watches, pending, queue,
                   results>>

\* event.wait(timeout) raises the handler's timeout error
ConnectTimeout ==
    /\ pc = "wait_timeout"
    /\ ~_live
    /\ _connection_timed_out' = TRUE
    /\ pc' = "idle"
    /\ last' = [Observe("connect_timeout", Env, NoCb)
                  EXCEPT !.raised = "timeout_error"]
    /\ UNCHANGED <<_watcher, zh, race,
                   _handle, _live, _stopped, state, state_listeners, hpc,
                   zhandles, next_zhandle, watches, pending, queue, results,
                   heard>>

----------------------------------------------------------------------------
(* AsyncResult (supplied by the handler) *)

NewResult == [nval |-> 0, nexc |-> 0, out |-> <<"unset">>]

\* async_result.set(value)
AsyncSet(r, value) == [r EXCEPT !.nval = @ + 1, !.out = <<"value">> \o value]

\* async_result.set_exception(exc)
AsyncSetException(r, exc) == [r EXCEPT !.nexc = @ + 1, !.out = <<"exc", exc>>]

\* err_to_exception(code)
err_to_exception(code) ==
    CASE code = NONODE -> "NoNodeException"
      [] code = BADVERSION -> "BadVersionException"
      [] OTHER -> "ZookeeperError"

\* Python values carried by a result: None, a scalar, a tuple
PyNone == <<"None">>
PyScalar(x) == <<"scalar", x>>
PyTuple(xs) == <<"tuple">> \o xs

ZnodeStat(raw) == "ZnodeStat(" \o raw \o ")"

----------------------------------------------------------------------------
(* Completion callbacks *)

_generic_callback_rawstat(r, code, args) ==
    IF code # OK
    THEN AsyncSetException(r, err_to_exception(code))
    ELSE IF args = <<>>
    THEN AsyncSet(r, PyNone)
    ELSE IF Len(args) = 1
    THEN AsyncSet(r, PyScalar(args[1]))
    ELSE AsyncSet(r, PyTuple(args))

_generic_callback(r, code, args) ==
    IF code # OK
    THEN AsyncSetException(r, err_to_exception(code))
    ELSE IF args = <<>>
    THEN AsyncSet(r, PyNone)
    ELSE IF Len(args) = 1
    THEN AsyncSet(r, PyScalar(args[1]))
    ELSE IF Len(args) = 2
    THEN AsyncSet(r, PyTuple(<<args[1], ZnodeStat(args[2])>>))
    ELSE AsyncSet(r, PyTuple(args))

_exists_callback_strict(r, code, stat) ==
    IF code # OK
    THEN AsyncSetException(r, err_to_exception(code))
    ELSE AsyncSet(r, stat)

_exists_callback(r, code, stat) ==
    IF code \notin {OK, NONODE}
    THEN AsyncSetException(r, err_to_exception(code))
    ELSE AsyncSet(r, stat)

----------------------------------------------------------------------------
(* Operation facade *)

\* Number of arguments each transport function takes after the handle.
Arity ==
    [acreate |-> 5, aexists |-> 3, aget |-> 3, aget_children |-> 3,
     aset |-> 4, adelete |-> 3, add_auth |-> 3]

\* func(handle, *args) of the transport: TypeError for an absent handle or
\* a wrong argument count, otherwise the request is accepted.
zookeeper_call(func, handle, nargs) ==
    IF handle = None \/ nargs # Arity[func] THEN "TypeError" ELSE "accepted"

_safe_call_swapped(func, isResult, nargs) ==
    IF zookeeper_call(func, _handle, nargs) = "accepted"
    THEN "accepted"
    ELSE IF ~isResult
    THEN "AttributeError"
    ELSE IF ~_stopped
    THEN "ZookeeperStoppedError"
    ELSE "ConnectionLossException"

_safe_call_always_loss(func, isResult, nargs) ==
    IF zookeeper_call(func, _handle, nargs) = "accepted"
    THEN "accepted"
    ELSE IF ~isResult
    THEN "AttributeError"
    ELSE "ConnectionLossException"

\* _safe_call(func, async_result, *args): what happens to the object bound
\* to its async_result parameter.  isResult tells whether that object is an
\* AsyncResult (it has a set_exception method).
_safe_call(func, isResult, nargs) ==
    IF zookeeper_call(func, _handle, nargs) = "accepted"
    THEN "accepted"
    ELSE IF ~isResult
    THEN "AttributeError"
    ELSE IF _stopped
    THEN "ZookeeperStoppedError"
    ELSE "ConnectionLossException"

\* The common body of the *_async methods: allocate the AsyncResult, bind
\* the completion callback, _safe_call, return the AsyncResult.
\* isResult/nargs describe the arguments the method passes to _safe_call.
\* an operation that reconnects by itself when it finds the handle absent
Facade_reconnects(op, func, isResult, nargs, watch) ==
    /\ pc = "idle"
    /\ Len(results) < MaxResults
    /\ LET r == Len(results) + 1
           out == _safe_call(func, isResult, nargs)
           ar == IF out \in {"ZookeeperStoppedError", "ConnectionLossException"}
                 THEN AsyncSetException(NewResult, out)
                 ELSE NewResult
           e == IF _handle = None THEN connect_async(Env) ELSE Env
       IN  /\ results' = Append(results, ar)
           /\ pending' = IF out = "accepted"
                         THEN pending \cup {[r |-> r, op |-> op]}
                         ELSE pending
           /\ watches' = IF out = "accepted" /\ watch THEN watches + 1
                         ELSE watches
           /\ Commit(e)
           /\ last' = [Observe(op, e, NoCb) EXCEPT
                         !.res = r, !.calls = 1,
                         !.watched = watches' - watches,
                         !.raised = IF out = "AttributeError" THEN out ELSE "",
                         !.ret = IF out = "AttributeError" THEN "None"
                                 ELSE "async_result"]
    /\ UNCHANGED <<_watcher, zh, race, state_listeners,
                   _connection_timed_out, pc, hpc, queue>>

Facade(op, func, isResult, nargs, watch) ==
    /\ pc = "idle"
    /\ Len(results) < MaxResults
    /\ LET r == Len(results) + 1
           out == _safe_call(func, isResult, nargs)
           ar == IF out \in {"ZookeeperStoppedError", "ConnectionLossException"}
                 THEN AsyncSetException(NewResult, out)
                 ELSE NewResult
       IN  /\ results' = Append(results, ar)
           /\ pending' = IF out = "accepted"
                         THEN pending \cup {[r |-> r, op |-> op]}
                         ELSE pending
           /\ watches' = IF out = "accepted" /\ watch THEN watches + 1
                         ELSE watches
           /\ last' = [Observe(op, Env, NoCb) EXCEPT
                         !.res = r, !.calls = 1,
                         !.watched = watches' - watches,
                         !.raised = IF out = "AttributeError" THEN out ELSE "",
                         !.ret = IF out = "AttributeError" THEN "None"
                                 ELSE "async_result"]
    /\ UNCHANGED <<_watcher, zh, race,
                   _handle, _live, _stopped, state, state_listeners,
                   _connection_timed_out, pc, hpc, zhandles, next_zhandle, queue,
                   heard>>

add_auth_async == Facade("add_auth_async", "add_auth", FALSE, 2, FALSE)

create_async == Facade("create_async", "acreate", TRUE, 5, FALSE)

exists_async ==
    \E watch \in BOOLEAN : Facade("exists_async", "aexists", TRUE, 3, watch)

get_async ==
    \E watch \in BOOLEAN : Facade("get_async", "aget", TRUE, 3, watch)

get_children_async ==
    \E watch \in BOOLEAN :
        Facade("get_children_async", "aget_children", TRUE, 3, watch)

set_async == Facade("set_async", "aset", TRUE, 4, FALSE)

delete_async == Facade("delete_async", "adelete", TRUE, 3, FALSE)

\* Results a completion carries
CompletionArgs == {<<>>, <<"v">>, <<"v", "stat">>}
Codes == {OK, NONODE, BADVERSION}

\* The transport invokes the completion callback of an accepted request
Complete ==
    /\ \E p \in pending, code \in Codes, args \in CompletionArgs :
         /\ pending' = pending \ {p}
         /\ results' =
              [results EXCEPT ![p.r] =
                 IF p.op = "exists_async"
                 THEN _exists_callback(@, code,
                          IF code = OK THEN PyScalar("stat") ELSE PyNone)
                 ELSE _generic_callback(@, code, args)]
         /\ last' = [Observe("completion", Env, <<p.op, code, args>>)
                       EXCEPT !.res = p.r]
    /\ UNCHANGED <<_watcher, zh, race,
                   _handle, _live, _stopped, state, state_listeners,
                   _connection_timed_out, pc, hpc, zhandles, next_zhandle, watches,
                   queue, heard>>

----------------------------------------------------------------------------
(* Watch callbacks *)

\* wrapper built by _wrap_watch_callback, invoked by the transport
WatchWrapper ==
    /\ watches > 0
    /\ Len(queue) < MaxQueue
    /\ \E handle \in 1..(next_zhandle - 1), ev \in WatchRaw, path \in Paths :
         LET type == ev[1]
             st == ev[2]
         IN  /\ queue' = queue \o _wrap_watch_callback(handle, type, st, path)
             /\ watches' = IF type # SESSION_EVENT THEN watches - 1
                           ELSE watches
             /\ last' = [Observe("watch_wrapper", Env,
                                 <<handle, type, st, path>>)
                           EXCEPT !.dispatched = Len(queue') - Len(queue)]
    /\ UNCHANGED <<_watcher, zh, race,
                   _handle, _live, _stopped, state, state_listeners,
                   _connection_timed_out, pc, hpc, zhandles, next_zhandle,
                   pending, results, heard>>

\* the handler runs a dispatched watch Callback: the user's watch function
RunWatchCallback ==
    /\ hpc = "idle"
    /\ queue # <<>>
    /\ Head(queue).type = "watch"
    /\ queue' = Tail(queue)
    /\ last' = Observe("watch", Env, Head(queue).args)
    /\ UNCHANGED <<_watcher, zh, race,
                   _handle, _live, _stopped, state, state_listeners,
                   _connection_timed_out, pc, hpc, zhandles, next_zhandle, watches,
                   pending, results, heard>>

----------------------------------------------------------------------------
(* stop() beside a session callback, one statement at a time.  The         *)
(* application thread runs stop() (lines 571-572 and the _safe_close it    *)
(* calls); the handler thread runs _session_callback with the methods it   *)
(* calls.  A thread's position is the line it executes next; the Callback  *)
(* stays at the head of the queue until _session_callback returns.         *)

At(t) == IF t = "app" THEN pc ELSE hpc

Goto(t, l) ==
    IF t = "app" THEN pc' = l /\ hpc' = hpc ELSE hpc' = l /\ pc' = pc

\* what neither stop() nor _session_callback writes
RaceFixed ==
    <<_watcher, state_listeners, _connection_timed_out, watches, pending,
      results>>

Statement(t, label, e, cb, l) ==
    /\ Commit(e)
    /\ last' = Observe(label, e, cb)
    /\ Goto(t, l)
    /\ UNCHANGED RaceFixed

\* stop() has begun and not returned
Stopping == pc \notin {"idle", "stopped"}

\* _session_callback has found its handle current and not returned
PastHandleTest == hpc \notin {"idle", "484", "487", "490"}

\* line 571: self._stopped.set()
stop_571 ==
    /\ pc = "idle"
    /\ Statement("app", "stop:571", [Env EXCEPT !.stopped = TRUE], NoCb,
                 "516")
    /\ race' = [began |-> next_zhandle,
                overlap |-> race.overlap \/ PastHandleTest]
    /\ UNCHANGED <<zh, queue>>

\* where _safe_close returns to: the end of stop(), or line 541
SafeCloseReturn(t) == IF t = "app" THEN "stopped" ELSE "541"

\* line 516: if self._handle is not None
_safe_close_516 ==
    \E t \in Threads :
        /\ At(t) = "516"
        /\ Statement(t, "_safe_close:516", Env, NoCb,
                     IF _handle # None THEN "517" ELSE SafeCloseReturn(t))
        /\ UNCHANGED <<zh, race, queue>>

\* line 517: zh, self._handle = self._handle, None
_safe_close_517 ==
    \E t \in Threads :
        /\ At(t) = "517"
        /\ zh' = [zh EXCEPT ![t] = _handle]
        /\ Statement(t, "_safe_close:517", [Env EXCEPT !.handle = None],
                     NoCb, "519")
        /\ UNCHANGED <<race, queue>>

\* lines 518-522: zookeeper.close(zh), errors swallowed
_safe_close_519 ==
    \E t \in Threads :
        /\ At(t) = "519"
        /\ Statement(t, "_safe_close:519", zookeeper_close(Env, zh[t]),
                     NoCb, "523")
        /\ UNCHANGED <<zh, race, queue>>

\* line 523: self._live.clear()
_safe_close_523 ==
    \E t \in Threads :
        /\ At(t) = "523"
        /\ Statement(t, "_safe_close:523", [Env EXCEPT !.live = FALSE],
                     NoCb, "524")
        /\ UNCHANGED <<zh, race, queue>>

\* the calls of _make_state_change: lines 500, 505, 510 and 524
Sites == {"500", "505", "510", "524"}

StateArg(site) ==
    CASE site = "500" -> CONNECTED
      [] site = "510" -> SUSPENDED
      [] OTHER -> LOST

L475(site) ==
    CASE site = "500" -> "500:475"
      [] site = "505" -> "505:475"
      [] site = "510" -> "510:475"
      [] OTHER -> "524:475"

L477(site) ==
    CASE site = "500" -> "500:477"
      [] site = "505" -> "505:477"
      [] site = "510" -> "510:477"
      [] OTHER -> "524:477"

\* where _make_state_change returns to
StateChangeReturn(t, site) ==
    CASE site = "505" -> "506"
      [] site = "524" -> SafeCloseReturn(t)
      [] OTHER -> "512"

\* line 473: if self.state == state: return
_make_state_change_473 ==
    \E t \in Threads, site \in Sites :
        /\ At(t) = site
        /\ Statement(t, "_make_state_change:473", Env, NoCb,
                     IF state = StateArg(site)
                     THEN StateChangeReturn(t, site) ELSE L475(site))
        /\ UNCHANGED <<zh, race, queue>>

\* line 475: self.state = state
_make_state_change_475 ==
    \E t \in Threads, site \in Sites :
        /\ At(t) = L475(site)
        /\ Statement(t, "_make_state_change:475",
                     [Env EXCEPT !.state = StateArg(site)], NoCb, L477(site))
        /\ UNCHANGED <<zh, race, queue>>

\* lines 477-481: the listener loop
_make_state_change_477 ==
    \E t \in Threads, site \in Sites :
        /\ At(t) = L477(site)
        /\ Statement(t, "_make_state_change:477",
                     Notify(Env, StateArg(site)), NoCb,
                     StateChangeReturn(t, site))
        /\ UNCHANGED <<zh, race, queue>>

\* line 484: if type != EventType.SESSION: return
_session_callback_484 ==
    /\ hpc = "idle"
    /\ queue # <<>>
    /\ Head(queue).type = "session"
    /\ LET a == Head(queue).args
       IN  /\ Statement("handler", "_session_callback:484", Env, a,
                        IF a[2] # SESSION_EVENT THEN "idle" ELSE "487")
           /\ queue' = IF a[2] # SESSION_EVENT THEN Tail(queue) ELSE queue
    /\ UNCHANGED <<zh, race>>

\* line 487: if self._handle != handle
_session_callback_487 ==
    /\ hpc = "487"
    /\ LET a == Head(queue).args
       IN  /\ Statement("handler", "_session_callback:487", Env, a,
                        IF _handle # a[1] THEN "490" ELSE "495")
           /\ race' = [race EXCEPT
                         !.overlap = @ \/ (_handle = a[1] /\ Stopping)]
    /\ UNCHANGED <<zh, queue>>

\* lines 488-493: zookeeper.close(handle), errors swallowed; return
_session_callback_490 ==
    /\ hpc = "490"
    /\ LET a == Head(queue).args
       IN  Statement("handler", "_session_callback:490",
                     zookeeper_close(Env, a[1]), a, "idle")
    /\ queue' = Tail(queue)
    /\ UNCHANGED <<zh, race>>

\* lines 495-496: if self._stopped.is_set(): return; then the branch of
\* lines 498-507 on the event's state
_session_callback_495 ==
    /\ hpc = "495"
    /\ LET a == Head(queue).args
       IN  /\ Statement("handler", "_session_callback:495", Env, a,
                        IF _stopped THEN "idle"
                        ELSE IF a[3] = CONNECTED_STATE THEN "499"
                        ELSE IF a[3] \in {EXPIRED_SESSION_STATE,
                                          AUTH_FAILED_STATE} THEN "503"
                        ELSE "509")
           /\ queue' = IF _stopped THEN Tail(queue) ELSE queue
    /\ UNCHANGED <<zh, race>>

\* line 499: self._live.set()
_session_callback_499 ==
    /\ hpc = "499"
    /\ Statement("handler", "_session_callback:499",
                 [Env EXCEPT !.live = TRUE], Head(queue).args, "500")
    /\ UNCHANGED <<zh, race, queue>>

\* line 503: self._live.clear()
_session_callback_503 ==
    /\ hpc = "503"
    /\ Statement("handler", "_session_callback:503",
                 [Env EXCEPT !.live = FALSE], Head(queue).args, "504")
    /\ UNCHANGED <<zh, race, queue>>

\* line 504: self._handle = None
_session_callback_504 ==
    /\ hpc = "504"
    /\ Statement("handler", "_session_callback:504",
                 [Env EXCEPT !.handle = None], Head(queue).args, "505")
    /\ UNCHANGED <<zh, race, queue>>

\* line 509: self._live.clear()
_session_callback_509 ==
    /\ hpc = "509"
    /\ Statement("handler", "_session_callback:509",
                 [Env EXCEPT !.live = FALSE], Head(queue).args, "510")
    /\ UNCHANGED <<zh, race, queue>>

\* line 506 calls connect_async; line 534: if self._live.is_set(): return
connect_async_534 ==
    /\ hpc = "506"
    /\ Statement("handler", "connect_async:534", Env, Head(queue).args,
                 IF _live THEN "512" ELSE "516")
    /\ UNCHANGED <<zh, race, queue>>

\* line 541: self._stopped.clear()
connect_async_541 ==
    /\ hpc = "541"
    /\ Statement("handler", "connect_async:541",
                 [Env EXCEPT !.stopped = FALSE], Head(queue).args, "543")
    /\ UNCHANGED <<zh, race, queue>>

\* lines 543-548: self._handle = zookeeper.init(...)
connect_async_543 ==
    /\ hpc = "543"
    /\ next_zhandle <= MaxHandles
    /\ Statement("handler", "connect_async:543", zookeeper_init(Env),
                 Head(queue).args, "512")
    /\ UNCHANGED <<zh, race, queue>>

\* lines 512-513: the default watcher; _session_callback returns
_session_callback_512 ==
    /\ hpc = "512"
    /\ LET a == Head(queue).args
       IN  Statement("handler", "_session_callback:512",
                     _call_watcher(Env, a[2], a[3], a[4]), a, "idle")
    /\ queue' = Tail(queue)
    /\ UNCHANGED <<zh, race>>

\* connect_async() on the application thread, before it calls stop()
RaceConnectAsync ==
    /\ ConnectAsync
    /\ hpc = "idle"

----------------------------------------------------------------------------
(* Specifications *)

Next ==
    \/ add_listener
    \/ remove_listener
    \/ ConnectAsync
    \/ Connect
    \/ ConnectReturn
    \/ ConnectTimeout
    \/ Stop
    \/ Restart
    \/ SessionWrapper
    \/ RunSessionCallback

Spec == Init /\ [][Next]_vars

\* The same, with a handler that runs every Callback it was handed
\* (dispatch_callback, line 459) and a waiter that returns once woken
\* (event.wait, line 563)
SpecLive ==
    /\ Init
    /\ [][Next]_vars
    /\ WF_vars(RunSessionCallback)
    /\ WF_vars(ConnectReturn)

\* The operation facade and the watch wrappers, with the connection
\* control and the session callbacks they interleave with.
NextFacade ==
    \/ ConnectAsync
    \/ Stop
    \/ SessionWrapper
    \/ SessionCallbackBegin
    \/ SessionCallbackReconnect
    \/ add_auth_async
    \/ create_async
    \/ exists_async
    \/ get_async
    \/ get_children_async
    \/ set_async
    \/ delete_async
    \/ Complete
    \/ WatchWrapper
    \/ RunWatchCallback

SpecFacade == Init /\ [][NextFacade]_vars

\* stop() and a session callback, interleaved statement by statement
NextRace ==
    \/ RaceConnectAsync
    \/ SessionWrapper
    \/ stop_571
    \/ _safe_close_516
    \/ _safe_close_517
    \/ _safe_close_519
    \/ _safe_close_523
    \/ _make_state_change_473
    \/ _make_state_change_475
    \/ _make_state_change_477
    \/ _session_callback_484
    \/ _session_callback_487
    \/ _session_callback_490
    \/ _session_callback_495
    \/ _session_callback_499
    \/ _session_callback_503
    \/ _session_callback_504
    \/ _session_callback_509
    \/ connect_async_534
    \/ connect_async_541
    \/ connect_async_543
    \/ _session_callback_512

SpecRace == Init /\ [][NextRace]_vars

----------------------------------------------------------------------------
(* Properties of the connection state machine (Spec) *)

\* the raw event of the session callback the last step ran
RanSessionCallback == last.op = "_session_callback"

\* C1: no listener is invoked with the same state twice in a row: the last
\* two states any listener heard during one registration differ, and a step
\* that invokes a listener at all invokes it once, with the state that has
\* just become current.
NoDuplicateNotification ==
    \A l \in Listeners :
        /\ Len(heard[l]) = 2 => heard[l][1] # heard[l][2]
        /\ last.notes[l] # <<>> => last.notes[l] = <<state>>

\* C1 witness: a listener that has heard two states sees a session callback
\* ask for the state that is already current, and is not invoked.
SameStateTransitionSkipped ==
    /\ RanSessionCallback
    /\ last.cb[1] = _handle
    /\ last.cb[2] = SESSION_EVENT
    /\ last.cb[3] = CONNECTED_STATE
    /\ ~_stopped
    /\ state = CONNECTED
    /\ \E l \in state_listeners :
          /\ heard[l] = <<LOST, CONNECTED>>
          /\ last.notes[l] = <<>>

\* C2: a SESSION callback whose handle is not the current handle leaves
\* state, live flag, stopped flag and handle unchanged, invokes no listener,
\* opens no session, and closes exactly the handle it carried.
StaleCallbackDiscarded ==
    [][(/\ last'.op = "_session_callback"
        /\ last'.cb[2] = SESSION_EVENT
        /\ last'.cb[1] # _handle)
       => (/\ UNCHANGED <<state, _live, _stopped, _handle, heard>>
           /\ last'.notes = NoNotes
           /\ last'.inits = 0
           /\ last'.closes = <<last'.cb[1]>>
           /\ zhandles' = zhandles \ {last'.cb[1]}
           /\ next_zhandle' = next_zhandle)]_vars

\* C2 witness: a connected client has just run a CONNECTING session event
\* of a superseded handle.
StaleCallbackRan ==
    /\ RanSessionCallback
    /\ last.cb[2] = SESSION_EVENT
    /\ last.cb[3] = CONNECTING_STATE
    /\ _handle # None
    /\ last.cb[1] # _handle
    /\ last.closes = <<last.cb[1]>>
    /\ state = CONNECTED

\* C3: EXPIRED_SESSION or AUTH_FAILED for the current handle of a client
\* that is not stopped: the state becomes LOST, the live flag is clear,
\* every registered listener is invoked exactly once with LOST if the state
\* was CONNECTED or SUSPENDED, and one new session is opened whose handle
\* replaces the current one.
ExpiryReconnects ==
    [][(/\ last'.op = "_session_callback"
        /\ last'.cb[2] = SESSION_EVENT
        /\ last'.cb[1] = _handle
        /\ ~_stopped
        /\ last'.cb[3] \in {EXPIRED_SESSION_STATE, AUTH_FAILED_STATE})
       => (/\ state' = LOST
           /\ ~_live'
           /\ ~_stopped'
           /\ state \in {CONNECTED, SUSPENDED} =>
                 \A l \in state_listeners : last'.notes[l] = <<LOST>>
           /\ \A l \in Listeners \ state_listeners : last'.notes[l] = <<>>
           /\ last'.inits = 1
           /\ _handle' \notin {None, _handle}
           /\ _handle' \in zhandles' \ zhandles)]_vars

\* C3 witness: a session expiry on a connected client with two listeners has
\* told both LOST and opened a new session.
ExpiryReconnected ==
    /\ RanSessionCallback
    /\ last.cb[3] = EXPIRED_SESSION_STATE
    /\ last.inits = 1
    /\ last.cb[1] \notin {None, _handle}
    /\ state_listeners = Listeners
    /\ \A l \in Listeners : heard[l] = <<CONNECTED, LOST>> /\ last.notes[l] = <<LOST>>
    /\ state = LOST

\* C4: while the client is stopped the state is LOST, the handle absent and
\* the live flag clear, and no session callback changes any of them, invokes
\* a listener or opens a session.
StoppedIgnoresCallbacks ==
    /\ [](_stopped => state = LOST /\ _handle = None /\ ~_live)
    /\ [][(_stopped /\ last'.op = "_session_callback")
          => (/\ UNCHANGED <<state, _live, _stopped, _handle, heard>>
              /\ last'.notes = NoNotes
              /\ last'.inits = 0)]_vars

\* C4 witness: after a stop of a session that had been opened, a CONNECTED
\* session event of that session has been run.
CallbackAfterStop ==
    /\ RanSessionCallback
    /\ _stopped
    /\ last.cb[2] = SESSION_EVENT
    /\ last.cb[3] = CONNECTED_STATE
    /\ last.cb[1] = next_zhandle - 1
    /\ state_listeners # {}

----------------------------------------------------------------------------
(* Properties of the operation facade and the watch wrapper (SpecFacade) *)

SixOperations == {"create_async", "exists_async", "get_async",
                  "get_children_async", "set_async", "delete_async"}

StoppedError == <<"exc", "ZookeeperStoppedError">>
ConnectionLoss == <<"exc", "ConnectionLossException">>

IsPending(r) == \E p \in pending : p.r = r

\* C5: each of the six operations issued while the handle is absent
\* resolves its AsyncResult once, with the stopped error if the stopped flag
\* is set and with the connection-loss error if it is clear, never with a
\* value, and nothing is left with the transport.
AbsentHandleGuard ==
    (last.op \in SixOperations /\ _handle = None) =>
        /\ last.raised = ""
        /\ last.ret = "async_result"
        /\ results[last.res].nval = 0
        /\ results[last.res].nexc = 1
        /\ results[last.res].out =
              IF _stopped THEN StoppedError ELSE ConnectionLoss
        /\ ~IsPending(last.res)

\* C5 witness: an operation issued between the handle being dropped on
\* session expiry and the reconnect got the connection-loss error.
CallDuringReconnect ==
    /\ last.op \in SixOperations
    /\ _handle = None
    /\ ~_stopped
    /\ hpc = "reconnect"
    /\ results[last.res].out = ConnectionLoss

\* C6 as stated: get_async on a stopped client resolves with the stopped
\* error and does not invoke the transport operation.
StoppedGetMakesNoTransportCall ==
    (last.op = "get_async" /\ _stopped /\ _handle = None) =>
        /\ results[last.res].out = StoppedError
        /\ last.calls = 0

\* C6 amended: get_async on a stopped client invokes the transport
\* operation once with the absent handle, the transport rejects it (no
\* request and no watch is registered), and the AsyncResult is resolved once
\* with the stopped error.
StoppedGetIsRejected ==
    (last.op = "get_async" /\ _stopped /\ _handle = None) =>
        /\ results[last.res].out = StoppedError
        /\ results[last.res].nexc = 1
        /\ results[last.res].nval = 0
        /\ last.calls = 1
        /\ ~IsPending(last.res)
        /\ last.watched = 0

\* C6 witness: a get_async after stop() of a client that had been connected.
GetAfterStop ==
    /\ last.op = "get_async"
    /\ _stopped
    /\ _handle = None
    /\ next_zhandle > 1
    /\ results[last.res].out = StoppedError

\* C7 as stated: every AsyncResult an operation allocated is resolved at
\* most once, and exactly once unless its request is still with the
\* transport.
ResolvedExactlyOnce ==
    \A r \in 1..Len(results) :
        /\ results[r].nval + results[r].nexc <= 1
        /\ ~IsPending(r) => results[r].nval + results[r].nexc = 1

\* C8 as stated: add_auth_async returns an AsyncResult without raising, and
\* with the handle absent that result carries the stopped or the
\* connection-loss error.
AddAuthFollowsTemplate ==
    last.op = "add_auth_async" =>
        /\ last.raised = ""
        /\ last.ret = "async_result"
        /\ _handle = None =>
              results[last.res].out =
                  IF _stopped THEN StoppedError ELSE ConnectionLoss

\* C9 as stated: a raw event of type SESSION handed to a watch wrapper is
\* never dispatched, so no user watch function runs with a session event.
WatchNeverSeesSessionType ==
    /\ (last.op = "watch_wrapper" /\ last.cb[2] = SESSION_EVENT)
          => last.dispatched = 0
    /\ \A i \in 1..Len(queue) :
          queue[i].type = "watch" => queue[i].args[1].type # SESSION_EVENT
    /\ last.op = "watch" => last.cb[1].type # SESSION_EVENT

----------------------------------------------------------------------------
(* Further properties of the connection state machine (Spec) *)

\* C11: connect_async (also as the first statement of connect) called while
\* the live flag is set opens no session, closes nothing, invokes no
\* listener, returns None and leaves handle, state, flags, listeners and the
\* transport's handle table as they were; connect then returns at once.
ConnectWhileLiveIsNoOp ==
    [][(last'.op \in {"connect_async", "connect"} /\ _live)
       => (/\ UNCHANGED <<_handle, _live, _stopped, state, state_listeners,
                          zhandles, next_zhandle, heard, pc>>
           /\ last'.ret = "None"
           /\ last'.inits = 0
           /\ last'.closes = <<>>
           /\ last'.log = <<>>
           /\ last'.notes = NoNotes)]_vars

\* C11 witness: connect_async on a connected client returned None.
ConnectAsyncWhileLive ==
    /\ last.op = "connect_async"
    /\ _live
    /\ state = CONNECTED
    /\ last.ret = "None"
    /\ zhandles = {_handle}

\* C12 as stated: with a default watcher configured, every session callback
\* the handler runs ends by invoking the watcher once with
\* WatchedEvent(type, state, path), whatever the state machine made of the
\* event.
DefaultWatcherSeesEveryEvent ==
    (_watcher /\ last.op = "_session_callback") =>
        /\ last.watcher = <<WatchedEvent(last.cb[2], last.cb[3], last.cb[4])>>
        /\ last.log[Len(last.log)] = <<"watcher", last.cb[2], last.cb[3]>>

\* C13: a step that changes the connection state invokes every registered
\* listener once with the new state, also when some of them raise: each
\* exception is logged, none leaves the step, the listener set and the new
\* state stay.
ListenerErrorsIsolated ==
    [][(state' # state)
       => (/\ \A l \in state_listeners : last'.notes[l] = <<state'>>
           /\ \A l \in Listeners \ state_listeners : last'.notes[l] = <<>>
           /\ last'.logged = Cardinality(state_listeners \cap Raising)
           /\ last'.raised = ""
           /\ state_listeners' = state_listeners)]_vars

\* C13 witness: a CONNECTED event was accepted with a raising and a
\* well-behaved listener registered; both were invoked, one exception logged.
RaisingListenerDidNotStopOthers ==
    /\ last.op = "_session_callback"
    /\ state = CONNECTED
    /\ state_listeners = Listeners
    /\ Raising # {}
    /\ Raising # Listeners
    /\ \A l \in Listeners : last.notes[l] = <<CONNECTED>>
    /\ last.logged = Cardinality(Raising)
    /\ last.raised = ""

\* C14: a session event of the current handle of a client that is not
\* stopped: transport state CONNECTED sets the live flag and makes the state
\* CONNECTED; a transport state other than CONNECTED, EXPIRED_SESSION and
\* AUTH_FAILED clears the live flag and makes the state SUSPENDED; both keep
\* the handle and open or close no session.
TransitionTable ==
    [][(/\ last'.op = "_session_callback"
        /\ last'.cb[2] = SESSION_EVENT
        /\ last'.cb[1] = _handle
        /\ ~_stopped
        /\ last'.cb[3] \notin {EXPIRED_SESSION_STATE, AUTH_FAILED_STATE})
       => (/\ IF last'.cb[3] = CONNECTED_STATE
              THEN _live' /\ state' = CONNECTED
              ELSE ~_live' /\ state' = SUSPENDED
           /\ UNCHANGED <<_handle, _stopped, zhandles, next_zhandle>>
           /\ last'.inits = 0
           /\ last'.closes = <<>>)]_vars

\* C14 witness: an ASSOCIATING event suspended a connected client.
SuspendedByAssociating ==
    /\ last.op = "_session_callback"
    /\ last.cb[1] = _handle
    /\ last.cb[2] = SESSION_EVENT
    /\ last.cb[3] = ASSOCIATING_STATE
    /\ ~_stopped
    /\ ~_live
    /\ state = SUSPENDED
    /\ \E l \in state_listeners : heard[l] = <<CONNECTED, SUSPENDED>>

\* C16: a timeout of the wait inside connect() sets _connection_timed_out
\* and raises the timeout error, and writes nothing else: the handle stays
\* current and open, the stopped flag stays clear, state and live flag are
\* untouched; and with the flag set a CONNECTED event of the current handle
\* still sets the live flag and makes the state CONNECTED.
TimeoutOnlyAffectsWaiter ==
    /\ [][(last'.op = "connect_timeout")
          => (/\ _connection_timed_out'
              /\ last'.raised = "timeout_error"
              /\ UNCHANGED <<_handle, _live, _stopped, state,
                             state_listeners, zhandles, next_zhandle, queue,
                             heard>>
              /\ _handle' \in zhandles'
              /\ ~_stopped')]_vars
    /\ [][(/\ _connection_timed_out
           /\ last'.op = "_session_callback"
           /\ last'.cb[2] = SESSION_EVENT
           /\ last'.cb[1] = _handle
           /\ last'.cb[3] = CONNECTED_STATE
           /\ ~_stopped)
          => (_live' /\ state' = CONNECTED /\ _handle' = _handle)]_vars

\* C16 witness: the first connect() timed out, and the CONNECTED event of the
\* session it opened arrived afterwards and connected the client.
ConnectedAfterTimeout ==
    /\ _connection_timed_out
    /\ last.op = "_session_callback"
    /\ last.cb[1] = _handle
    /\ last.cb[2] = SESSION_EVENT
    /\ last.cb[3] = CONNECTED_STATE
    /\ _handle = 1
    /\ _live
    /\ state = CONNECTED

\* position of the first call of a kind in the calls of a step, 0 if none
FirstCall(log, kind) ==
    IF \E i \in 1..Len(log) : log[i][1] = kind
    THEN CHOOSE i \in 1..Len(log) :
             /\ log[i][1] = kind
             /\ \A j \in 1..(i - 1) : log[j][1] # kind
    ELSE 0

\* C17: restart() closes the current handle if there is one, leaves the
\* stopped flag clear and opens one new session whose handle becomes
\* current, then waits in connect(); from CONNECTED or SUSPENDED every
\* registered listener is invoked once with LOST, before the session is
\* opened.
RestartReconnects ==
    [][(last'.op = "restart")
       => (/\ last'.closes = IF _handle # None THEN <<_handle>> ELSE <<>>
           /\ _handle \notin zhandles'
           /\ ~_stopped'
           /\ ~_live'
           /\ state' = LOST
           /\ last'.inits = 1
           /\ _handle' # None
           /\ _handle' \notin zhandles
           /\ _handle' \in zhandles'
           /\ pc' = "wait"
           /\ \A l \in state_listeners :
                 last'.notes[l] = IF state \in {CONNECTED, SUSPENDED}
                                  THEN <<LOST>> ELSE <<>>
           /\ state \in {CONNECTED, SUSPENDED} =>
                 /\ FirstCall(last'.log, "close") = 1
                 /\ FirstCall(last'.log, "state") = 2
                 /\ FirstCall(last'.log, "init") = 3)]_vars

\* C17 witness: a restart of a connected client closed its session, told a
\* listener LOST and opened the next session.
RestartedFromConnected ==
    /\ last.op = "restart"
    /\ last.closes = <<1>>
    /\ _handle = 2
    /\ zhandles = {2}
    /\ ~_stopped
    /\ \E l \in state_listeners :
          heard[l] = <<CONNECTED, LOST>> /\ last.notes[l] = <<LOST>>

\* C20: at most one transport session opened by the client is open and
\* unclosed: a session is opened only after the handle it replaces has been
\* closed through the transport.  Violated: on EXPIRED_SESSION or
\* AUTH_FAILED for the current handle, line 504 forgets the handle without
\* zookeeper.close, and the connect_async of line 506 opens the next one.
AtMostOneOpenSession == Cardinality(zhandles) <= 1

\* C23: between complete public calls and complete callbacks, a set
\* stopped flag implies an absent handle, and an absent handle implies
\* state LOST and a clear live flag.
StoppedMeansClosed ==
    /\ _stopped => _handle = None
    /\ _handle = None => (state = LOST /\ ~_live)

\* C23 witness: stop() on a connected client closed its session and left
\* the client stopped, without a handle, LOST and not live.
StoppedFromConnected ==
    /\ last.op = "stop"
    /\ last.closes = <<1>>
    /\ _stopped
    /\ _handle = None
    /\ state = LOST
    /\ ~_live
    /\ \E l \in state_listeners : heard[l] = <<CONNECTED, LOST>>

\* C24: between complete public calls and complete callbacks, the live
\* flag (what the connected property returns) is set exactly when the
\* state is CONNECTED.
LiveIffConnected == _live <=> state = CONNECTED

\* C24 witness: a suspended client was connected again by a session
\* callback, and is live.
ReconnectedAfterSuspended ==
    /\ last.op = "_session_callback"
    /\ last.cb[3] = CONNECTED_STATE
    /\ _live
    /\ state = CONNECTED
    /\ \E l \in state_listeners : heard[l] = <<SUSPENDED, CONNECTED>>

\* the handler's next Callback is a CONNECTED session event of the current
\* handle, and the client is not stopped
ConnectedEventAtHead ==
    /\ queue # <<>>
    /\ Head(queue).type = "session"
    /\ Head(queue).args[1] = _handle
    /\ Head(queue).args[2] = SESSION_EVENT
    /\ Head(queue).args[3] = CONNECTED_STATE
    /\ ~_stopped

\* the application has just called stop, restart, connect or connect_async
Intervened == last.op \in {"stop", "restart", "connect", "connect_async"}

\* C21: once the CONNECTED session event of the session connect_async
\* opened has been handed to the handler, and the handler runs what it was
\* handed, then unless stop, restart or another connect intervenes the live
\* flag is eventually set with state CONNECTED, and a connect() blocked in
\* its wait returns (or, waiting with a timeout, returns or times out).
ConnectEventuallyLive ==
    /\ ConnectedEventAtHead ~> ((_live /\ state = CONNECTED) \/ Intervened)
    /\ (ConnectedEventAtHead /\ pc = "wait") ~> (last.op = "connect_return")
    /\ (ConnectedEventAtHead /\ pc = "wait_timeout")
          ~> (last.op \in {"connect_return", "connect_timeout"})

\* C21 witness: a blocked connect() returned after the CONNECTED event of
\* its session, with the client live.
ConnectReturnedConnected ==
    /\ last.op = "connect_return"
    /\ pc = "idle"
    /\ _handle = 1
    /\ _live
    /\ state = CONNECTED
    /\ ~_connection_timed_out

----------------------------------------------------------------------------
(* Further properties of the operation facade (SpecFacade) *)

\* the completion callback the last step ran: operation, status, results
RanCompletion == last.op = "completion"

\* C15: the completion of an existence check resolves the AsyncResult with
\* the stat for status OK, with None for status NONODE, and with the error
\* built from the status for any other status; once, and never with an error
\* for NONODE.
ExistsCompletion ==
    (RanCompletion /\ last.cb[1] = "exists_async") =>
        LET r == results[last.res]
            code == last.cb[2]
        IN  IF code = OK
            THEN r.out = <<"value", "scalar", "stat">>
                 /\ r.nval = 1 /\ r.nexc = 0
            ELSE IF code = NONODE
            THEN r.out = <<"value", "None">> /\ r.nval = 1 /\ r.nexc = 0
            ELSE r.out = <<"exc", err_to_exception(code)>>
                 /\ r.nval = 0 /\ r.nexc = 1

\* C15 witness: an existence check completed with NONODE and resolved to None.
ExistsOfMissingNode ==
    /\ RanCompletion
    /\ last.cb[1] = "exists_async"
    /\ last.cb[2] = NONODE
    /\ results[last.res].out = <<"value", "None">>

\* C18: the generic completion resolves the AsyncResult once: with the
\* error built from the status when the status is not OK, and otherwise
\* with None for no result, with the result itself for one, and with the
\* pair (first result, ZnodeStat of the second) for two.
GenericCompletion ==
    (RanCompletion /\ last.cb[1] # "exists_async") =>
        LET r == results[last.res]
            code == last.cb[2]
            args == last.cb[3]
        IN  IF code # OK
            THEN r.out = <<"exc", err_to_exception(code)>>
                 /\ r.nval = 0 /\ r.nexc = 1
            ELSE /\ r.nval = 1 /\ r.nexc = 0
                 /\ args = <<>> => r.out = <<"value", "None">>
                 /\ args = <<"v">> => r.out = <<"value", "scalar", "v">>
                 /\ args = <<"v", "stat">> =>
                       r.out = <<"value", "tuple", "v", "ZnodeStat(stat)">>
                 /\ args \in CompletionArgs

\* C18 witness: a get completed with OK, a value and a raw stat.
GetCompletedWithStat ==
    /\ RanCompletion
    /\ last.cb = <<"get_async", OK, <<"v", "stat">>>>
    /\ results[last.res].out = <<"value", "tuple", "v", "ZnodeStat(stat)">>

\* C22: no operation of the facade, whether the transport accepts it, it
\* is rejected or it hits the absent-handle guard, and no completion of
\* one, changes the current handle, the connection state, the live flag,
\* the stopped flag or the listener set.
FacadeLeavesConnectionAlone ==
    [][(last'.op \in SixOperations \cup {"completion"})
       => UNCHANGED <<_handle, state, _live, _stopped, state_listeners>>]_vars

\* C22 witness: an operation was accepted by the transport on a connected
\* client, which is still connected on the same handle.
OperationWhileConnected ==
    /\ last.op = "set_async"
    /\ IsPending(last.res)
    /\ _handle = 1
    /\ _live
    /\ state = CONNECTED
    /\ ~_stopped

----------------------------------------------------------------------------
(* stop() beside a session callback (SpecRace) *)

\* C19: when stop() interleaves, statement by statement, with a session
\* callback for the then-current handle, then once both have returned the
\* client is stopped: stopped flag set, handle absent, live flag clear,
\* state LOST, and no session opened after stop() began is still open.
\* Violated: the callback tests the stopped flag once, at line 495, and
\* writes the live flag, the state and the handle after stop() has run.
StopWinsRace ==
    (pc = "stopped" /\ hpc = "idle" /\ race.overlap)
    => /\ _stopped
       /\ _handle = None
       /\ ~_live
       /\ state = LOST
       /\ \A h \in zhandles : h < race.began

====
